---- MODULE Spec2Model ----
(***************************************************************************)
(* Verification model of procedural-design: the field carver              *)
(* (algorithms/tunnelling.py), the boundary masks (geometry/boundaries.py) *)
(* and the isosurface / validation stage (geometry/mesh_operations.py).    *)
(*                                                                         *)
(* Numbers.  Field samples are exact rationals <<num, den>> with den > 0;  *)
(* radius is carried in halves of a grid unit (radius = radius2 / 2) and   *)
(* reduction_factor is a rational, so the truncations and comparisons of   *)
(* the source are computed exactly.                                       *)
(* Arrays live in heap, a sequence of array contents; a variable that      *)
(* holds an array holds its index in heap, so that aliasing is visible.    *)
(***************************************************************************)
EXTENDS Integers, Sequences, FiniteSets, TLC

VARIABLES
    heap,             \* sequence of array contents (the numpy arrays alive)
    field,            \* heap index of the caller's input field
    mask,             \* boolean validity mask, a function over the cells
    n_agents, agent_steps,
    radius2,          \* radius, in halves of a grid unit
    reduction_factor, \* rational <<num, den>>
    random_seed,      \* Optional[int]: <<>> for None, <<s>> for the seed s
    n,                \* field.shape[0]
    coords,           \* np.where(mask) as a sequence of cells
    f,                \* heap index of the working copy (0 before it exists)
    pos,              \* the agent's x, y, z
    agent, step,      \* loop counters of the two for loops
    pc,               \* position in carve_tunnels_random_walk
    ret,              \* heap index of the returned array (0 before return)
    field0,           \* history: contents of the input field at the call
    carved,           \* history: per cell, number of carving operations that reached it
    agentOps,         \* history: per started agent, number of carving operations
    restarts,         \* history: number of restarts after leaving the mask
    drawn,            \* history: the values the generator produced in this call
    callNo,           \* which of the two repeated calls is running
    prevOut, prevDrawn, \* result and draws of the first of two repeated calls
    mk_n, mk_radius_frac, mk_taper, \* arguments of the boundary mask builders
    mk_vase, mk_cyl,  \* values returned by make_vase_mask, make_cylinder_mask
    iso_field,        \* extract_isosurface: the field, [ndim, n, data]
    isovalue2,        \* isovalue, in halves of a field unit
    smooth,           \* the smooth flag
    iso_out,          \* outcome of extract_isosurface: a mesh or a raised exception
    mesh,             \* validate_mesh: the mesh, [vertices, faces]
    report,           \* the dictionary validate_mesh returned
    meshes,           \* sequence of mesh contents (the Trimesh objects alive)
    stage,            \* the mesh stage the caller calls
    args,             \* its arguments other than the mesh
    mesh_in,          \* index in meshes of the mesh argument
    mesh_copy,        \* index in meshes of the stage's local mesh_copy (0 before it exists)
    new_vertices,     \* smooth_mesh: the array new_vertices of the running pass
    it, vi,           \* smooth_mesh: pass counter and vertex index of the two loops
    opc,              \* position in the stage
    out,              \* outcome of the stage: PyNone, a returned mesh or a raised exception
    fault,            \* the library call that raises in this run ("none": none does)
    fill_drops_flat,  \* whether fill_holes discards the zero-area faces it made
    filled,           \* history: the meshes fill_holes met and what it added to each
    mesh_in0,         \* history: contents of the caller's mesh at the first call
    pre,              \* history: vertex positions when the running pass began
    ran,              \* history: the steps of the stage that ran, per call
    reports,          \* the validation outcome after every repair_mesh call
    touched           \* history: whether the caller changed the returned mesh

carveVars == <<heap, field, mask, n_agents, agent_steps, radius2, reduction_factor,
               random_seed, n, coords, f, pos, agent, step, pc, ret, field0,
               carved, agentOps, restarts>>
pairVars == <<drawn, callNo, prevOut, prevDrawn>>
maskVars == <<mk_n, mk_radius_frac, mk_taper, mk_vase, mk_cyl>>
isoVars == <<iso_field, isovalue2, smooth, iso_out>>
meshVars == <<mesh, report>>
opVars == <<meshes, stage, args, mesh_in, mesh_copy, new_vertices, it, vi, opc, out,
            fault, fill_drops_flat, filled, mesh_in0, pre, ran, reports, touched>>
stageVars == <<maskVars, isoVars, meshVars, opVars>>
vars == <<carveVars, pairVars, stageVars>>

----------------------------------------------------------------------------
(* Bounds of the model *)

\* largest n_agents * agent_steps of a non-degenerate call
MaxOps == 2
\* largest radius, in halves of a grid unit; radius is a tunnel radius, >= 0
MaxRadius2 == 2

\* grid resolutions n
GridSizes == {1, 2, 3}
Radii2 == 0..MaxRadius2
\* reduction_factor: 0, 1/2, 1 and, outside the documented range, 3/2
Factors == {<<0, 2>>, <<1, 2>>, <<2, 2>>, <<3, 2>>}
Seeds == {<<>>, <<42>>}
CountRange == -1..MaxOps

----------------------------------------------------------------------------
(* Rational arithmetic on <<num, den>>, den > 0 *)

RMul(a, b) == <<a[1] * b[1], a[2] * b[2]>>
RLeq(a, b) == a[1] * b[2] <= b[1] * a[2]
REq(a, b) == a[1] * b[2] = b[1] * a[2]

RECURSIVE RPow(_, _)
RPow(a, k) == IF k = 0 THEN <<1, 1>> ELSE RMul(a, RPow(a, k - 1))

Max2(a, b) == IF a >= b THEN a ELSE b
Min2(a, b) == IF a <= b THEN a ELSE b

\* int(a / 2) of Python: truncation toward zero
IntHalf(a) == IF a >= 0 THEN a \div 2 ELSE -((-a) \div 2)

----------------------------------------------------------------------------
(* Grids *)

Cells(m) == (0..(m - 1)) \X (0..(m - 1)) \X (0..(m - 1))

\* the cell with row-major (C order) index i of an m x m x m array
CellAt(m, i) == <<i \div (m * m), (i \div m) % m, i % m>>

\* np.array(np.where(mask)).T : the True cells in row-major order
WhereAll(msk, m) == [i \in 1..(m * m * m) |-> CellAt(m, i - 1)]
Where(msk, m) ==
    SelectSeq([i \in 1..(m * m * m) |-> CellAt(m, i - 1)], LAMBDA c : msk[c])

\* input fields of the model: sample x + y + z + b at cell (x, y, z)
InputField(m, b) == [c \in Cells(m) |-> <<c[1] + c[2] + c[3] + b, 1>>]

\* input masks of the model: empty, the line y = z = 0, the diagonal
\* x = y = z, the whole grid
InputMask(m, k) ==
    [c \in Cells(m) |->
        CASE k = 0 -> FALSE
          [] k = 1 -> c[2] = 0 /\ c[3] = 0
          [] k = 2 -> c[1] = c[2] /\ c[2] = c[3]
          [] OTHER -> TRUE]

----------------------------------------------------------------------------
(* Python values: a tuple and an array are different kinds of value *)

PyTuple(items) == [type |-> "tuple", items |-> items]
PyArray(data) == [type |-> "ndarray", data |-> data]
PyNone == [type |-> "NoneType"]

\* v[0] of a Python tuple v
Index0(v) == v.items[1]

----------------------------------------------------------------------------
(* geometry/boundaries.py.  Fractions are rationals <<num, den>>, den > 0. *)

\* np.linspace(-1, 1, n)[i] = LinNum(m, i) / LinDen(m)
LinNum(m, i) == IF m = 1 THEN -1 ELSE 2 * i - (m - 1)
LinDen(m) == IF m = 1 THEN 1 ELSE m - 1

\* Z_norm = (Z + 1.0) / 2.0 at height index k
ZNorm(m, k) == <<LinNum(m, k) + LinDen(m), 2 * LinDen(m)>>

\* R_xy <= radius_z, radius_z = base_radius * (1.0 - taper * Z_norm): with
\* radius_z = a / b (b > 0) and R_xy = sqrt(X^2 + Y^2), X = xn / d, Y = yn / d
InVase(m, c, rf, tp) ==
    LET d == LinDen(m)
        xn == LinNum(m, c[1])
        yn == LinNum(m, c[2])
        zn == ZNorm(m, c[3])
        a == rf[1] * (zn[2] * tp[2] - tp[1] * zn[1])
        b == rf[2] * tp[2] * zn[2]
    IN  a >= 0 /\ (xn * xn + yn * yn) * b * b <= a * a * d * d

\* make_vase_mask(n, radius_frac, taper): the tuple (mask, Z_norm)
make_vase_mask(m, rf, tp) ==
    PyTuple(<<PyArray([c \in Cells(m) |-> InVase(m, c, rf, tp)]),
              PyArray([c \in Cells(m) |-> ZNorm(m, c[3])])>>)

\* make_cylinder_mask(n, radius_frac)
make_cylinder_mask_default_taper(m, rf) == make_vase_mask(m, rf, <<3, 10>>)
make_cylinder_mask(m, rf) == make_vase_mask(m, rf, <<0, 1>>)

\* largest grid resolution passed to the mask builders
MaxMaskN == 4
RadiusFracs == {<<0, 1>>, <<1, 2>>, <<7, 10>>, <<1, 1>>, <<3, 2>>}
Tapers == {<<0, 1>>, <<3, 10>>, <<1, 1>>, <<2, 1>>}

MaskIdle ==
    /\ mk_n = 1
    /\ mk_radius_frac = <<0, 1>>
    /\ mk_taper = <<0, 1>>
    /\ mk_vase = PyNone
    /\ mk_cyl = PyNone

----------------------------------------------------------------------------
(* geometry/mesh_operations.py: extract_isosurface.                        *)
(* measure.marching_cubes is scikit-image's: it raises ValueError when the *)
(* level lies outside [volume.min(), volume.max()], RuntimeError when no   *)
(* cube straddles the level, and otherwise returns the surface, with one   *)
(* vertex on every grid edge whose ends lie on different sides of the      *)
(* level (a sample is inside when it is > level).                         *)

Raised(exc) == [kind |-> "raise", exc |-> exc]

\* sample v is on the inside of the level
Inside(v, level2) == 2 * v > level2

\* grid edges of an m x m x m volume: pairs of cells one step apart on one axis
GridEdges(m) ==
    {e \in Cells(m) \X Cells(m) :
        \/ e[2] = <<e[1][1] + 1, e[1][2], e[1][3]>>
        \/ e[2] = <<e[1][1], e[1][2] + 1, e[1][3]>>
        \/ e[2] = <<e[1][1], e[1][2], e[1][3] + 1>>}

\* the corners of the cube whose lowest corner is c
Corners(c) == {<<c[1] + i, c[2] + j, c[3] + k>> : i \in {0, 1}, j \in {0, 1}, k \in {0, 1}}

\* measure.marching_cubes(field, level=isovalue, spacing=spacing)
marching_cubes(vol, level2) ==
    LET data == vol.data
        crossing == {e \in GridEdges(vol.n) :
                        Inside(data[e[1]], level2) # Inside(data[e[2]], level2)}
        straddling == {c \in Cells(vol.n - 1) :
                        \E a, b \in Corners(c) :
                            Inside(data[a], level2) # Inside(data[b], level2)}
    IN  IF \/ \A c \in DOMAIN data : level2 < 2 * data[c]
           \/ \A c \in DOMAIN data : level2 > 2 * data[c]
        THEN Raised("ValueError")
        ELSE IF crossing = {}
        THEN Raised("RuntimeError")
        ELSE [kind |-> "surface", num_vertices |-> Cardinality(crossing),
              cubes |-> Cardinality(straddling)]

\* extract_isosurface(field, isovalue, spacing, smooth, smooth_iterations)
extract_isosurface(vol, level2, sm) ==
    IF vol.ndim # 3
    THEN Raised("ValueError")
    ELSE LET mc == marching_cubes(vol, level2)
         IN  IF mc.kind = "raise"
             THEN mc
             ELSE [kind |-> "mesh", num_vertices |-> mc.num_vertices,
                   cubes |-> mc.cubes, smoothed |-> sm]

\* a caller extracts an isosurface
CallExtract ==
    /\ iso_out = PyNone
    /\ iso_out' = extract_isosurface(iso_field, isovalue2, smooth)
    /\ UNCHANGED <<iso_field, isovalue2, smooth, maskVars, carveVars, pairVars, meshVars,
                   opVars>>

\* largest resolution of the fields passed to extract_isosurface
MaxIsoN == 3

\* input fields: all 0, all 1, x + y + z, 1 at the origin only;
\* a field that is not 3D is a 2D array
IsoField(m, k, dims) ==
    [ndim |-> dims,
     n |-> m,
     data |-> [c \in (IF dims = 3 THEN Cells(m) ELSE (0..(m - 1)) \X (0..(m - 1))) |->
                 CASE k = 0 -> 0
                   [] k = 1 -> 1
                   [] k = 2 -> IF dims = 3 THEN c[1] + c[2] + c[3] ELSE c[1] + c[2]
                   [] OTHER -> IF \A i \in 1..dims : c[i] = 0 THEN 1 ELSE 0]]

IsoIdle ==
    /\ iso_field = IsoField(2, 0, 3)
    /\ isovalue2 = 1
    /\ smooth = TRUE
    /\ iso_out = PyNone

----------------------------------------------------------------------------
(* geometry/mesh_operations.py: validate_mesh.                             *)
(* A mesh is [vertices, faces]: vertices a sequence of points <<x, y, z>>  *)
(* with integer coordinates, faces a sequence of triples of vertex         *)
(* indices (from 1).  The model's unit of length is 1e-4, so an area a is  *)
(* |cross| / 2 * 1e-8, |cross| the norm of the face's cross product in     *)
(* model units.  is_watertight, is_winding_consistent, is_volume,          *)
(* area_faces and volume are trimesh's properties.  The measurements       *)
(* surface_area, bounds and dimensions of the report are left out.         *)

Sub(a, b) == <<a[1] - b[1], a[2] - b[2], a[3] - b[3]>>
Cross(a, b) ==
    <<a[2] * b[3] - a[3] * b[2], a[3] * b[1] - a[1] * b[3], a[1] * b[2] - a[2] * b[1]>>
Dot(a, b) == a[1] * b[1] + a[2] * b[2] + a[3] * b[3]

\* squared norm of the cross product of face fc: (2 * area)^2
Cross2(m, fc) ==
    LET v == m.vertices
        c == Cross(Sub(v[fc[2]], v[fc[1]]), Sub(v[fc[3]], v[fc[1]]))
    IN  Dot(c, c)

\* np.isclose(area, 0): |area| <= atol = 1e-8, that is |cross|^2 <= 4
AreaTolCross2 == 4

\* mesh.edges: the directed edges (a, b), (b, c), (c, a) of every face
Edges(m) ==
    [i \in 1..(3 * Len(m.faces)) |->
        LET fc == m.faces[(i - 1) \div 3 + 1]
            k == (i - 1) % 3
        IN  IF k = 0 THEN <<fc[1], fc[2]>>
            ELSE IF k = 1 THEN <<fc[2], fc[3]>> ELSE <<fc[3], fc[1]>>]

\* a row of mesh.edges_sorted
SortedEdge(e) == IF e[1] <= e[2] THEN e ELSE <<e[2], e[1]>>

\* the occurrences of the undirected edge of edges[i]
Occurrences(edges, i) ==
    {j \in 1..Len(edges) : SortedEdge(edges[j]) = SortedEdge(edges[i])}

\* mesh.is_watertight: every undirected edge occurs exactly twice
is_watertight(m) ==
    /\ m.faces # <<>>
    /\ \A i \in 1..(3 * Len(m.faces)) : Cardinality(Occurrences(Edges(m), i)) = 2

\* mesh.is_winding_consistent: the two occurrences of every edge that occurs
\* exactly twice run in opposite directions
is_winding_consistent(m) ==
    /\ m.faces # <<>>
    /\ LET edges == Edges(m)
       IN  \A i, j \in 1..Len(edges) :
              (i < j /\ Occurrences(edges, i) = {i, j}) => edges[i][2] = edges[j][1]

\* 6 * mesh.volume: the sum of the signed volumes of the faces' tetrahedra
RECURSIVE Volume6From(_, _)
Volume6From(m, i) ==
    IF i > Len(m.faces) THEN 0
    ELSE LET fc == m.faces[i]
             v == m.vertices
         IN  Dot(v[fc[1]], Cross(v[fc[2]], v[fc[3]])) + Volume6From(m, i + 1)

\* mesh.is_volume: watertight, consistently wound, of positive volume
is_volume(m) == is_watertight(m) /\ is_winding_consistent(m) /\ Volume6From(m, 1) > 0

\* np.isclose(mesh.area_faces, 0).sum()
CountExactZero(m) == Cardinality({i \in 1..Len(m.faces) : Cross2(m, m.faces[i]) = 0})
CountDegenerate(m) ==
    Cardinality({i \in 1..Len(m.faces) : Cross2(m, m.faces[i]) <= AreaTolCross2})

\* len(mesh.vertices) - len(np.unique(mesh.vertices, axis=0))
CountDuplicates(m) ==
    Len(m.vertices) - Cardinality({m.vertices[i] : i \in 1..Len(m.vertices)})

\* face-count ceiling of the self-intersection check
FaceCeiling == 50000

\* lines 191-202: the initial dictionary
InitialResults(m) ==
    [is_valid |-> TRUE,
     is_watertight |-> is_watertight(m),
     is_winding_consistent |-> is_winding_consistent(m),
     num_vertices |-> Len(m.vertices),
     num_faces |-> Len(m.faces),
     volume |-> IF is_volume(m) THEN <<Volume6From(m, 1)>> ELSE <<>>,
     warnings |-> <<>>,
     errors |-> <<>>]

\* lines 204-207
CheckWatertight(r, m) ==
    IF ~is_watertight(m)
    THEN [r EXCEPT !.is_valid = FALSE,
                   !.errors = Append(@, <<"Mesh is not watertight (has holes)">>)]
    ELSE r

\* lines 209-211
CheckWindingAsError(r, m) ==
    IF ~is_winding_consistent(m)
    THEN [r EXCEPT !.is_valid = FALSE,
                   !.warnings = Append(@, <<"Face winding is inconsistent">>)]
    ELSE r
CheckWinding(r, m) ==
    IF ~is_winding_consistent(m)
    THEN [r EXCEPT !.warnings = Append(@, <<"Face winding is inconsistent">>)]
    ELSE r

\* lines 213-218
CheckDegenerateExact(r, m) ==
    IF CountExactZero(m) > 0
    THEN [r EXCEPT !.is_valid = FALSE,
                   !.errors = Append(@, <<"Found degenerate faces (zero area)",
                                          CountExactZero(m)>>)]
         @@ [degenerate_faces |-> CountExactZero(m)]
    ELSE r
CheckDegenerate(r, m) ==
    IF CountDegenerate(m) > 0
    THEN [r EXCEPT !.is_valid = FALSE,
                   !.errors = Append(@, <<"Found degenerate faces (zero area)",
                                          CountDegenerate(m)>>)]
         @@ [degenerate_faces |-> CountDegenerate(m)]
    ELSE r

\* lines 220-225
CheckDuplicates(r, m) ==
    IF CountDuplicates(m) > 0
    THEN [r EXCEPT !.warnings = Append(@, <<"Found duplicate vertices", CountDuplicates(m)>>)]
         @@ [duplicate_vertices |-> CountDuplicates(m)]
    ELSE r

\* lines 227-230
CheckVolume(r, m) ==
    IF Len(m.faces) < FaceCeiling /\ ~is_volume(m)
    THEN [r EXCEPT !.warnings =
            Append(@, <<"Mesh may have self-intersections or is not a volume">>)]
    ELSE r

\* lines 241-244
Flags(r, m) ==
    r @@ [has_degenerate_faces |-> CountDegenerate(m) > 0,
          has_duplicate_vertices |-> CountDuplicates(m) > 0,
          is_volume |-> is_volume(m)]

\* validate_mesh(mesh)
validate_mesh(m) ==
    Flags(CheckVolume(CheckDuplicates(CheckDegenerate(CheckWinding(
        CheckWatertight(InitialResults(m), m), m), m), m), m), m)

\* a caller validates the mesh
CallValidate ==
    /\ report = PyNone
    /\ report' = validate_mesh(mesh)
    /\ UNCHANGED <<mesh, maskVars, isoVars, carveVars, pairVars, opVars>>

\* Input meshes.  Vertices 1-4 span a tetrahedron with legs 3; vertices 5-7
\* lie on a line and vertex 8 beside it.  In variant 1 vertex 7 coincides with
\* vertex 5; in variant 2 vertex 8 lies three units off the line.
InputVertices(variant) ==
    <<<<0, 0, 0>>, <<3, 0, 0>>, <<0, 3, 0>>, <<0, 0, 3>>,
      <<4, 4, 4>>, <<5, 4, 4>>,
      IF variant = 1 THEN <<4, 4, 4>> ELSE <<6, 4, 4>>,
      IF variant = 2 THEN <<4, 7, 4>> ELSE <<4, 5, 4>>>>

\* the four faces of the tetrahedron, wound outwards
TetraFaces == <<<<1, 3, 2>>, <<1, 2, 4>>, <<1, 4, 3>>, <<2, 3, 4>>>>

Flip(fc) == <<fc[3], fc[2], fc[1]>>

\* the faces on vertices 5-8: a zero-area face and its reverse, a face beside
\* the line and its reverse
ExtraFaces == <<<<5, 6, 7>>, <<7, 6, 5>>, <<5, 6, 8>>, <<8, 6, 5>>>>

\* choice[i] for tetrahedron face i: 0 absent, 1 present, 2 present and flipped
RECURSIVE PickTetra(_, _)
PickTetra(choice, i) ==
    IF i > Len(TetraFaces) THEN <<>>
    ELSE (CASE choice[i] = 0 -> <<>>
            [] choice[i] = 1 -> <<TetraFaces[i]>>
            [] OTHER -> <<Flip(TetraFaces[i])>>) \o PickTetra(choice, i + 1)

RECURSIVE PickExtra(_, _)
PickExtra(chosen, i) ==
    IF i > Len(ExtraFaces) THEN <<>>
    ELSE (IF i \in chosen THEN <<ExtraFaces[i]>> ELSE <<>>) \o PickExtra(chosen, i + 1)

InputMeshes ==
    {[vertices |-> InputVertices(variant),
      faces |-> PickTetra(choice, 1) \o PickExtra(chosen, 1)] :
        variant \in 0..2,
        choice \in [1..4 -> 0..2],
        chosen \in SUBSET (1..4)}

----------------------------------------------------------------------------
(* geometry/mesh_operations.py: the mesh stages apply_displacement,        *)
(* smooth_mesh, decimate_mesh, repair_mesh and remesh_uniform.             *)
(* Trimesh objects live in meshes, a sequence of mesh contents; a variable *)
(* that holds a mesh holds its index in meshes, so that aliasing is        *)
(* visible.  mesh.copy(), merge_vertices, remove_degenerate_faces,         *)
(* remove_duplicate_faces, fill_holes, fix_normals, subdivide and          *)
(* simplify_quadric_decimation are trimesh's.  Where trimesh leaves the    *)
(* order of the vertices or faces it keeps to its hashing, the model keeps *)
(* them in their original order: no finding of validate_mesh depends on it.*)

\* mesh.copy(): a new Trimesh holding copies of the vertices and the faces
MeshCopy(h, r) == [heap |-> Append(h, h[r]), ref |-> Len(h) + 1]

\* the vertices some face refers to
Referenced(m) == {m.faces[i][k] : i \in 1..Len(m.faces), k \in 1..3}

\* the first referenced vertex at the position of vertex i
Representative(m, i) ==
    CHOOSE j \in Referenced(m) :
        /\ m.vertices[j] = m.vertices[i]
        /\ \A k \in Referenced(m) : m.vertices[k] = m.vertices[i] => j <= k

\* the index vertex i has after the merge
NewIndex(m, i) ==
    Cardinality({k \in Referenced(m) : Representative(m, k) = k /\ k <= Representative(m, i)})

\* mesh.merge_vertices(): referenced vertices at one position become one
\* vertex, unreferenced vertices are dropped, the faces are re-indexed
merge_vertices(m) ==
    LET kept == {i \in Referenced(m) : Representative(m, i) = i}
    IN  [vertices |-> [k \in 1..Cardinality(kept) |->
                         m.vertices[CHOOSE i \in kept : NewIndex(m, i) = k]],
         faces |-> [i \in 1..Len(m.faces) |->
                      <<NewIndex(m, m.faces[i][1]), NewIndex(m, m.faces[i][2]),
                        NewIndex(m, m.faces[i][3])>>]]

\* squared length of the longest edge of face fc
LongestEdge2(m, fc) ==
    LET v == m.vertices
        a == Sub(v[fc[2]], v[fc[1]])
        b == Sub(v[fc[3]], v[fc[2]])
        c == Sub(v[fc[1]], v[fc[3]])
    IN  Max2(Dot(a, a), Max2(Dot(b, b), Dot(c, c)))

\* (model unit / tol.merge)^2 = (1e-4 / 1e-8)^2
HeightTolInv2 == 100000000

\* triangles.nondegenerate(height=tol.merge): the longest edge and the height
\* over it, 2 * area / longest edge, both exceed tol.merge = 1e-8, that is
\* |cross|^2 * HeightTolInv2 > |longest edge|^2
nondegenerate(m, fc) ==
    /\ LongestEdge2(m, fc) > 0
    /\ Cross2(m, fc) > LongestEdge2(m, fc) \div HeightTolInv2

\* mesh.remove_degenerate_faces()
remove_degenerate_faces(m) ==
    [m EXCEPT !.faces = SelectSeq(m.faces, LAMBDA fc : nondegenerate(m, fc))]

\* a row of np.sort(mesh.faces, axis=1)
SortedFace(fc) ==
    LET lo == Min2(fc[1], Min2(fc[2], fc[3]))
        hi == Max2(fc[1], Max2(fc[2], fc[3]))
    IN  <<lo, fc[1] + fc[2] + fc[3] - lo - hi, hi>>

\* the faces from index i on that repeat no earlier face
RECURSIVE UniqueFrom(_, _)
UniqueFrom(fs, i) ==
    IF i > Len(fs) THEN <<>>
    ELSE (IF \E j \in 1..(i - 1) : SortedFace(fs[j]) = SortedFace(fs[i])
          THEN <<>> ELSE <<fs[i]>>) \o UniqueFrom(fs, i + 1)

\* mesh.remove_duplicate_faces(): one face is kept of every set of faces on
\* the same three vertices
remove_duplicate_faces_all(m) ==
    [m EXCEPT !.faces =
        SelectSeq(@, LAMBDA fc :
            Cardinality({j \in 1..Len(m.faces) : SortedFace(m.faces[j]) = SortedFace(fc)}) = 1)]
remove_duplicate_faces(m) == [m EXCEPT !.faces = UniqueFrom(m.faces, 1)]

\* indices in mesh.edges of the edges that occur once: the boundaries of the holes
BoundaryGroups(m) ==
    LET edges == Edges(m)
    IN  {i \in 1..Len(edges) : Cardinality(Occurrences(edges, i)) = 1}

\* the holes fill_holes can close: the cycles of three or four boundary edges,
\* each written from its lowest vertex towards the lower of that vertex's
\* two neighbours on the cycle
Holes(m) ==
    LET edges == Edges(m)
        B == {SortedEdge(edges[i]) : i \in BoundaryGroups(m)}
        V == {e[1] : e \in B} \cup {e[2] : e \in B}
        simple(v) == Cardinality({e \in B : v \in {e[1], e[2]}}) = 2
        linked(a, b) == SortedEdge(<<a, b>>) \in B
    IN  {h \in V \X V \X V :
            /\ h[1] < h[2] /\ h[2] < h[3]
            /\ linked(h[1], h[2]) /\ linked(h[2], h[3]) /\ linked(h[3], h[1])
            /\ \A k \in 1..3 : simple(h[k])}
        \cup
        {h \in V \X V \X V \X V :
            /\ h[1] < h[2] /\ h[1] < h[3] /\ h[1] < h[4] /\ h[2] < h[4]
            /\ h[3] # h[2] /\ h[3] # h[4]
            /\ linked(h[1], h[2]) /\ linked(h[2], h[3])
            /\ linked(h[3], h[4]) /\ linked(h[4], h[1])
            /\ \A k \in 1..4 : simple(h[k])}

\* hole_to_faces: a triangle is filled by one face, a quad by two faces
\* across the diagonal from the vertex the cycle starts at; rot tells
\* whether the cycle starts one vertex later
hole_to_faces(hole, rot) ==
    IF Len(hole) = 3 THEN <<hole>>
    ELSE LET h == IF rot = 1 THEN <<hole[2], hole[3], hole[4], hole[1]>> ELSE hole
         IN  <<<<h[1], h[2], h[3]>>, <<h[3], h[4], h[1]>>>>

\* a new face is reversed unless its first edge runs against the boundary
\* edge it lies on
Wound(m, fc) ==
    LET edges == Edges(m)
        i == CHOOSE k \in BoundaryGroups(m) :
                 SortedEdge(edges[k]) = SortedEdge(<<fc[1], fc[2]>>)
    IN  IF fc[1] = edges[i][2] THEN fc ELSE Flip(fc)

RECURSIVE NewFaces(_, _, _)
NewFaces(m, holes, rot) ==
    IF holes = {} THEN <<>>
    ELSE LET hole == CHOOSE h \in holes : TRUE
             made == hole_to_faces(hole, rot)
         IN  [k \in 1..Len(made) |-> Wound(m, made[k])] \o NewFaces(m, holes \ {hole}, rot)

\* mesh.fill_holes(): nothing for fewer than three faces, a watertight mesh
\* or fewer than three boundary edges; drop tells whether the new faces of
\* zero area are discarded
fill_holes(m, rot, drop) ==
    IF Len(m.faces) < 3 \/ is_watertight(m) \/ Cardinality(BoundaryGroups(m)) < 3
    THEN m
    ELSE LET new == NewFaces(m, Holes(m), rot)
         IN  [m EXCEPT !.faces =
                @ \o (IF drop THEN SelectSeq(new, LAMBDA fc : Cross2(m, fc) > 0) ELSE new)]

\* whether fill_holes has a choice of diagonal on m
HasQuadHole(m) ==
    /\ Len(m.faces) >= 3
    /\ \E h \in Holes(m) : Len(h) = 4

\* a row (i, j) of mesh.face_adjacency: faces i and j share an edge no other
\* face has
Adjacent(m, i, j) ==
    /\ i # j
    /\ \E p, q \in 1..3 :
          Occurrences(Edges(m), 3 * (i - 1) + p) = {3 * (i - 1) + p, 3 * (j - 1) + q}

\* faces fa and fb run along a shared edge in the same direction
SameWay(fa, fb) ==
    \E p, q \in 1..3 :
        /\ fa[p] = fb[q]
        /\ fa[(p % 3) + 1] = fb[(q % 3) + 1]

RECURSIVE Ascending(_)
Ascending(S) ==
    IF S = {} THEN <<>>
    ELSE LET lo == CHOOSE x \in S : \A y \in S : x <= y
         IN  <<lo>> \o Ascending(S \ {lo})

\* breadth-first traversal of the face adjacency from the faces in queue:
\* a face met for the first time is reversed when it runs along the shared
\* edge the same way as the face it was met from
RECURSIVE Propagate(_, _, _, _)
Propagate(m, fs, visited, queue) ==
    IF queue = <<>> THEN [faces |-> fs, visited |-> visited]
    ELSE LET p == Head(queue)
             kids == {c \in 1..Len(fs) : c \notin visited /\ Adjacent(m, p, c)}
             fs2 == [i \in 1..Len(fs) |->
                       IF i \in kids /\ SameWay(fs[p], fs[i]) THEN Flip(fs[i]) ELSE fs[i]]
         IN  Propagate(m, fs2, visited \cup kids, Tail(queue) \o Ascending(kids))

RECURSIVE WindFrom(_, _, _)
WindFrom(m, fs, visited) ==
    IF visited = 1..Len(fs) THEN fs
    ELSE LET start == CHOOSE i \in 1..Len(fs) :
                         i \notin visited /\ \A j \in 1..Len(fs) : j \notin visited => i <= j
             r == Propagate(m, fs, visited \cup {start}, <<start>>)
         IN  WindFrom(m, r.faces, r.visited)

\* repair.fix_winding(mesh)
fix_winding(m) ==
    IF is_winding_consistent(m) THEN m ELSE [m EXCEPT !.faces = WindFrom(m, m.faces, {})]

\* the faces linked to the faces of S through face adjacency
RECURSIVE FaceGroup(_, _)
FaceGroup(m, S) ==
    LET T == S \cup {j \in 1..Len(m.faces) : \E i \in S : Adjacent(m, i, j)}
    IN  IF T = S THEN S ELSE FaceGroup(m, T)

\* the vertices linked to the vertices of S through edges
RECURSIVE Body(_, _)
Body(m, S) ==
    LET T == S \cup {m.faces[i][k] : i \in {j \in 1..Len(m.faces) :
                                              \E v \in S : v \in {m.faces[j][1], m.faces[j][2],
                                                                  m.faces[j][3]}},
                                     k \in 1..3}
    IN  IF T = S THEN S ELSE Body(m, T)

\* mesh.body_count
body_count(m) == Cardinality({Body(m, {v}) : v \in 1..Len(m.vertices)})

\* 6 * the signed volume of the faces of S
RECURSIVE Volume6In(_, _, _)
Volume6In(m, S, i) ==
    IF i > Len(m.faces) THEN 0
    ELSE (IF i \in S
          THEN Dot(m.vertices[m.faces[i][1]],
                   Cross(m.vertices[m.faces[i][2]], m.vertices[m.faces[i][3]]))
          ELSE 0) + Volume6In(m, S, i + 1)

\* repair.fix_inversion(mesh, multibody): every group of adjacent faces of
\* negative volume is inverted; a single body is inverted as a whole
fix_inversion(m) ==
    IF body_count(m) > 1
    THEN [m EXCEPT !.faces =
            [i \in 1..Len(m.faces) |->
               IF /\ \E j \in 1..Len(m.faces) : Adjacent(m, i, j)
                  /\ Volume6In(m, FaceGroup(m, {i}), 1) < 0
               THEN Flip(m.faces[i]) ELSE m.faces[i]]]
    ELSE IF Volume6In(m, 1..Len(m.faces), 1) < 0
    THEN [m EXCEPT !.faces = [i \in 1..Len(m.faces) |-> Flip(m.faces[i])]]
    ELSE m

\* mesh.fix_normals()
fix_normals(m) == fix_inversion(fix_winding(m))

otherVars == <<carveVars, pairVars, maskVars, isoVars, meshVars>>
callVars == <<stage, args, fault, fill_drops_flat>>
smoothVars == <<new_vertices, it, vi, pre>>

\* a returned mesh
Returned(r) == [kind |-> "mesh", ref |-> r]

\* line 295: mesh_copy = mesh.copy()
RepairCopy ==
    /\ stage = "repair_mesh"
    /\ opc = "call"
    /\ LET cp == MeshCopy(meshes, mesh_in)
       IN  meshes' = cp.heap /\ mesh_copy' = cp.ref
    /\ ran' = Append(ran, "copy")
    /\ opc' = "merge_vertices"
    /\ UNCHANGED <<callVars, smoothVars, mesh_in, out, filled, mesh_in0, reports, touched,
                   otherVars>>

\* line 298: mesh_copy.merge_vertices()
RepairMerge ==
    /\ stage = "repair_mesh"
    /\ opc = "merge_vertices"
    /\ IF fault = "merge_vertices"
       THEN /\ out' = Raised("Exception")
            /\ opc' = "done"
            /\ UNCHANGED <<meshes, ran>>
       ELSE /\ meshes' = [meshes EXCEPT ![mesh_copy] = merge_vertices(@)]
            /\ ran' = Append(ran, "merge_vertices")
            /\ opc' = "remove_degenerate_faces"
            /\ UNCHANGED out
    /\ UNCHANGED <<callVars, smoothVars, mesh_in, mesh_copy, filled, mesh_in0, reports,
                   touched, otherVars>>

\* line 301: mesh_copy.remove_degenerate_faces()
RepairDegenerate ==
    /\ stage = "repair_mesh"
    /\ opc = "remove_degenerate_faces"
    /\ IF fault = "remove_degenerate_faces"
       THEN /\ out' = Raised("Exception")
            /\ opc' = "done"
            /\ UNCHANGED <<meshes, ran>>
       ELSE /\ meshes' = [meshes EXCEPT ![mesh_copy] = remove_degenerate_faces(@)]
            /\ ran' = Append(ran, "remove_degenerate_faces")
            /\ opc' = "remove_duplicate_faces"
            /\ UNCHANGED out
    /\ UNCHANGED <<callVars, smoothVars, mesh_in, mesh_copy, filled, mesh_in0, reports,
                   touched, otherVars>>

\* line 304: mesh_copy.remove_duplicate_faces()
RepairDuplicate ==
    /\ stage = "repair_mesh"
    /\ opc = "remove_duplicate_faces"
    /\ IF fault = "remove_duplicate_faces"
       THEN /\ out' = Raised("Exception")
            /\ opc' = "done"
            /\ UNCHANGED <<meshes, ran>>
       ELSE /\ meshes' = [meshes EXCEPT ![mesh_copy] = remove_duplicate_faces(@)]
            /\ ran' = Append(ran, "remove_duplicate_faces")
            /\ opc' = "fill_holes"
            /\ UNCHANGED out
    /\ UNCHANGED <<callVars, smoothVars, mesh_in, mesh_copy, filled, mesh_in0, reports,
                   touched, otherVars>>

\* fill_holes is a function of the mesh: on a mesh it met before it starts the
\* cycle of a quad hole where it started it then
FillAllows(hist, m, rot) == \A e \in hist : e[1] = m => e[2] = rot

\* lines 307-311: if not mesh_copy.is_watertight: try: mesh_copy.fill_holes()
\* except Exception: pass
RepairFill ==
    /\ stage = "repair_mesh"
    /\ opc = "fill_holes"
    /\ LET m == meshes[mesh_copy]
       IN  IF is_watertight(m)
           THEN /\ opc' = "fix_normals"
                /\ UNCHANGED <<meshes, filled, ran, out>>
           ELSE IF fault = "fill_holes"
           THEN /\ ran' = Append(ran, "fill_holes raised")
                /\ opc' = "fix_normals"
                /\ UNCHANGED <<meshes, filled, out>>
           ELSE /\ \E rot \in {0, 1} :
                      /\ HasQuadHole(m) \/ rot = 0
                      /\ FillAllows(filled, m, rot)
                      /\ meshes' = [meshes EXCEPT ![mesh_copy] =
                                        fill_holes(m, rot, fill_drops_flat)]
                      /\ filled' = filled \cup {<<m, rot>>}
                /\ ran' = Append(ran, "fill_holes")
                /\ opc' = "fix_normals"
                /\ UNCHANGED out
    /\ UNCHANGED <<callVars, smoothVars, mesh_in, mesh_copy, mesh_in0, reports, touched,
                   otherVars>>

\* lines 314-315: if not mesh_copy.is_winding_consistent: mesh_copy.fix_normals()
RepairNormals ==
    /\ stage = "repair_mesh"
    /\ opc = "fix_normals"
    /\ IF is_winding_consistent(meshes[mesh_copy])
       THEN /\ opc' = "return"
            /\ UNCHANGED <<meshes, ran, out>>
       ELSE IF fault = "fix_normals"
       THEN /\ out' = Raised("Exception")
            /\ opc' = "done"
            /\ UNCHANGED <<meshes, ran>>
       ELSE /\ meshes' = [meshes EXCEPT ![mesh_copy] = fix_normals(@)]
            /\ ran' = Append(ran, "fix_normals")
            /\ opc' = "return"
            /\ UNCHANGED out
    /\ UNCHANGED <<callVars, smoothVars, mesh_in, mesh_copy, filled, mesh_in0, reports,
                   touched, otherVars>>

\* line 317: return mesh_copy
RepairReturn ==
    /\ stage = "repair_mesh"
    /\ opc = "return"
    /\ out' = Returned(mesh_copy)
    /\ opc' = "done"
    /\ UNCHANGED <<callVars, smoothVars, meshes, mesh_in, mesh_copy, filled, mesh_in0, ran,
                   reports, touched, otherVars>>

\* validate_mesh(mesh) as a caller meets it: line 234 subscripts mesh.bounds,
\* which is None for a mesh without referenced vertices
ValidateOutcome(m) == IF Referenced(m) = {} THEN Raised("TypeError") ELSE validate_mesh(m)

\* the caller re-validates the mesh repair_mesh returned
Revalidate ==
    /\ stage = "repair_mesh"
    /\ opc = "done"
    /\ out # PyNone /\ out.kind = "mesh"
    /\ ~touched
    /\ Len(reports) < 2
    /\ reports' = Append(reports, ValidateOutcome(meshes[out.ref]))
    /\ opc' = "validated"
    /\ UNCHANGED <<callVars, smoothVars, meshes, mesh_in, mesh_copy, out, filled, mesh_in0,
                   ran, touched, otherVars>>

\* the caller runs repair_mesh again, on the mesh it returned
Again ==
    /\ stage = "repair_mesh"
    /\ opc = "validated"
    /\ Len(reports) = 1
    /\ mesh_in' = out.ref
    /\ mesh_in0' = meshes[out.ref]
    /\ mesh_copy' = 0
    /\ out' = PyNone
    /\ ran' = <<>>
    /\ opc' = "call"
    /\ UNCHANGED <<callVars, smoothVars, meshes, filled, reports, touched, otherVars>>

\* the caller changes the mesh a stage returned: it reverses the faces
\* (mesh.invert()), drops the last face or reverses the order of the vertices
Touch ==
    /\ opc = IF stage = "repair_mesh" THEN "validated" ELSE "done"
    /\ out # PyNone /\ out.kind = "mesh"
    /\ ~touched
    /\ \E how \in 1..3 :
          meshes' = [meshes EXCEPT ![out.ref] =
              CASE how = 1 -> [@ EXCEPT !.faces = [i \in 1..Len(@) |-> Flip(@[i])]]
                [] how = 2 -> [@ EXCEPT !.faces = SubSeq(@, 1, Len(@) - 1)]
                [] OTHER -> [@ EXCEPT !.vertices = [i \in 1..Len(@) |-> @[Len(@) + 1 - i]]]]
    /\ touched' = TRUE
    /\ UNCHANGED <<callVars, smoothVars, mesh_in, mesh_copy, opc, out, filled, mesh_in0, ran,
                   reports, otherVars>>

\* A tetrahedron whose edge 1-2 carries a fifth vertex: the face on 1, 3, 2
\* is split at it, and the gap along the edge is closed by a face of zero
\* area (closed = TRUE) or left open
SplitEdgeMesh(closed) ==
    [vertices |-> <<<<0, 0, 0>>, <<3, 0, 0>>, <<0, 3, 0>>, <<0, 0, 3>>, <<1, 0, 0>>>>,
     faces |-> <<<<1, 3, 5>>, <<5, 3, 2>>, <<1, 2, 4>>, <<1, 4, 3>>, <<2, 3, 4>>>>
               \o (IF closed THEN <<<<2, 1, 5>>>> ELSE <<>>)]

\* the first k faces of the tetrahedron, the first of them reversed or not
TetraChoices ==
    {c \in [1..4 -> 0..2] :
        /\ \A i \in 2..4 : c[i] # 2
        /\ \A i \in 1..3 : c[i] = 0 => c[i + 1] = 0}

MeshesOf(variants, extras) ==
    {[vertices |-> InputVertices(variant),
      faces |-> PickTetra(choice, 1) \o PickExtra(chosen, 1)] :
        variant \in variants, choice \in TetraChoices, chosen \in extras}
    \cup {SplitEdgeMesh(closed) : closed \in BOOLEAN}

\* the meshes passed to repair_mesh, and those passed to it in the runs in
\* which a library call raises
RepairMeshes == MeshesOf(0..2, SUBSET (1..4))
FaultMeshes == MeshesOf({0}, {{}, {3}})

\* the library calls of repair_mesh that can raise
RepairFaults ==
    {"none", "merge_vertices", "remove_degenerate_faces", "remove_duplicate_faces",
     "fill_holes", "fix_normals"}

OpsIdle ==
    /\ meshes = <<>>
    /\ stage = "none"
    /\ args = PyNone
    /\ mesh_in = 0
    /\ mesh_copy = 0
    /\ new_vertices = <<>>
    /\ it = 0
    /\ vi = 0
    /\ opc = "idle"
    /\ out = PyNone
    /\ fault = "none"
    /\ fill_drops_flat = FALSE
    /\ filled = {}
    /\ mesh_in0 = PyNone
    /\ pre = <<>>
    /\ ran = <<>>
    /\ reports = <<>>
    /\ touched = FALSE

\* the state in which a caller calls a stage on the mesh m
CallOf(m) ==
    /\ meshes = <<m>>
    /\ mesh_in = 1
    /\ mesh_in0 = m
    /\ mesh_copy = 0
    /\ new_vertices = <<>>
    /\ it = 0
    /\ vi = 0
    /\ opc = "call"
    /\ out = PyNone
    /\ filled = {}
    /\ pre = <<>>
    /\ ran = <<>>
    /\ reports = <<>>
    /\ touched = FALSE

InitRepair ==
    /\ stage = "repair_mesh"
    /\ args = PyNone
    /\ fault \in RepairFaults
    /\ \E m \in RepairMeshes : (fault # "none" => m \in FaultMeshes) /\ CallOf(m)
    /\ fill_drops_flat \in BOOLEAN

\* lines 266-272: decimate_mesh(mesh, target_faces).  The mesh
\* simplify_quadric_decimation returns is a new Trimesh with about
\* target_faces faces; which faces it keeps is the library's, the model keeps
\* the first ones.
Decimate ==
    /\ stage = "decimate_mesh"
    /\ opc = "call"
    /\ LET m == meshes[mesh_in]
       IN  IF Len(m.faces) <= args.target_faces
           THEN /\ out' = Returned(mesh_in)
                /\ UNCHANGED meshes
           ELSE IF fault = "simplify_quadric_decimation"
           THEN /\ out' = Raised("Exception")
                /\ UNCHANGED meshes
           ELSE \E k \in {args.target_faces - 1, args.target_faces} :
                   /\ k >= 0
                   /\ meshes' = Append(meshes, [m EXCEPT !.faces = SubSeq(@, 1, k)])
                   /\ out' = Returned(Len(meshes) + 1)
    /\ opc' = "done"
    /\ ran' = Append(ran, "decimate_mesh")
    /\ UNCHANGED <<callVars, smoothVars, mesh_in, mesh_copy, filled, mesh_in0, reports,
                   touched, otherVars>>

\* a + k * b for points a and b
AddScaled(a, k, b) == <<a[1] + k * b[1], a[2] + k * b[2], a[3] + k * b[3]>>

\* lines 94-116: apply_displacement(mesh, displacement_field, amplitude,
\* along_normal).  displacement_field is a sequence of numbers (one row per
\* entry) when along_normal, and of vectors otherwise; args.vertex_normals
\* stands for mesh.vertex_normals.
Displace ==
    /\ stage = "apply_displacement"
    /\ opc = "call"
    /\ LET cp == MeshCopy(meshes, mesh_in)
           m == meshes[mesh_in]
           d == args.displacement_field
       IN  /\ mesh_copy' = cp.ref
           /\ IF Len(d) # Len(m.vertices)
              THEN /\ meshes' = cp.heap
                   /\ out' = Raised("ValueError")
              ELSE /\ meshes' = [cp.heap EXCEPT ![cp.ref].vertices =
                         [i \in 1..Len(@) |->
                            IF args.along_normal
                            THEN AddScaled(@[i], args.amplitude * d[i], args.vertex_normals[i])
                            ELSE AddScaled(@[i], args.amplitude, d[i])]]
                   /\ out' = Returned(cp.ref)
    /\ opc' = "done"
    /\ ran' = Append(ran, "apply_displacement")
    /\ UNCHANGED <<callVars, smoothVars, mesh_in, filled, mesh_in0, reports, touched,
                   otherVars>>

\* the meshes passed to the other stages: the tetrahedron and its first k faces
StageMeshes ==
    {[vertices |-> SubSeq(InputVertices(0), 1, 5),
      faces |-> SubSeq(TetraFaces, 1, k)] : k \in 0..4}

InitDecimate ==
    /\ stage = "decimate_mesh"
    /\ \E t \in 0..5 : args = [target_faces |-> t]
    /\ \E m \in StageMeshes : CallOf(m)
    /\ fault \in {"none", "simplify_quadric_decimation"}
    /\ fill_drops_flat = FALSE

InitDisplace ==
    /\ stage = "apply_displacement"
    /\ \E m \in StageMeshes : CallOf(m)
    /\ \E len \in 4..5, amp \in {-1, 0, 2}, along \in BOOLEAN :
          args = [displacement_field |->
                     [i \in 1..len |-> IF along THEN i ELSE <<i, 0, 1>>],
                  amplitude |-> amp,
                  along_normal |-> along,
                  vertex_normals |-> [i \in 1..5 |-> IF i % 2 = 0 THEN <<0, 0, 1>>
                                                               ELSE <<1, 0, 0>>]]
    /\ fault = "none"
    /\ fill_drops_flat = FALSE

\* Exact positions: for smooth_mesh and remesh_uniform a coordinate is a
\* rational <<num, den>> in lowest terms, den > 0.
RECURSIVE Gcd(_, _)
Gcd(a, b) == IF b = 0 THEN a ELSE Gcd(b, a % b)

RNorm(q) ==
    LET g == Gcd(IF q[1] < 0 THEN -q[1] ELSE q[1], q[2])
    IN  <<q[1] \div g, q[2] \div g>>
RAdd(a, b) == RNorm(<<a[1] * b[2] + b[1] * a[2], a[2] * b[2]>>)
RScale(k, a) == RNorm(RMul(k, a))

\* points with rational coordinates
VAdd(a, b) == <<RAdd(a[1], b[1]), RAdd(a[2], b[2]), RAdd(a[3], b[3])>>
VScale(k, a) == <<RScale(k, a[1]), RScale(k, a[2]), RScale(k, a[3])>>

RECURSIVE VSum(_, _)
VSum(v, S) ==
    IF S = {} THEN <<<<0, 1>>, <<0, 1>>, <<0, 1>>>>
    ELSE LET i == CHOOSE x \in S : TRUE
         IN  VAdd(v[i], VSum(v, S \ {i}))

\* the mesh m with its integer coordinates written as rationals
Exact(m) ==
    [m EXCEPT !.vertices = [i \in 1..Len(@) |-> <<<<@[i][1], 1>>, <<@[i][2], 1>>, <<@[i][3], 1>>>>]]

\* mesh.vertex_neighbors[i - 1]: the vertices an edge of a face links to vertex i
vertex_neighbors(m, i) ==
    {j \in 1..Len(m.vertices) :
        \E k \in 1..Len(m.faces) : SortedEdge(<<i, j>>) \in
            {SortedEdge(<<m.faces[k][1], m.faces[k][2]>>),
             SortedEdge(<<m.faces[k][2], m.faces[k][3]>>),
             SortedEdge(<<m.faces[k][3], m.faces[k][1]>>)}}

\* the positions an update of the pass reads: mesh_copy.vertices
UpdatedPositions(current, updated) == updated
ReadPositions(current, updated) == current

\* lines 148-152: the new position of vertex i, read from the positions v
Smoothed(v, nbrs, i, lam) ==
    VAdd(VScale(RAdd(<<1, 1>>, <<-lam[1], lam[2]>>), v[i]),
         VScale(lam, VScale(<<1, Cardinality(nbrs)>>, VSum(v, nbrs))))

\* line 138: mesh_copy = mesh.copy()
SmoothCopy ==
    /\ stage = "smooth_mesh"
    /\ opc = "call"
    /\ LET cp == MeshCopy(meshes, mesh_in)
       IN  meshes' = cp.heap /\ mesh_copy' = cp.ref
    /\ it' = 0
    /\ opc' = "pass"
    /\ ran' = Append(ran, "copy")
    /\ UNCHANGED <<callVars, new_vertices, vi, pre, mesh_in, out, filled, mesh_in0, reports,
                   touched, otherVars>>

\* lines 140-145 and 156: the next pass begins with new_vertices a copy of the
\* positions, or the loop is over and mesh_copy is returned
SmoothPass ==
    /\ stage = "smooth_mesh"
    /\ opc = "pass"
    /\ IF it < args.iterations
       THEN /\ new_vertices' = meshes[mesh_copy].vertices
            /\ pre' = meshes[mesh_copy].vertices
            /\ vi' = 0
            /\ opc' = "vertex"
            /\ UNCHANGED out
       ELSE /\ out' = Returned(mesh_copy)
            /\ opc' = "done"
            /\ UNCHANGED <<new_vertices, pre, vi>>
    /\ UNCHANGED <<callVars, it, meshes, mesh_in, mesh_copy, filled, mesh_in0, ran, reports,
                   touched, otherVars>>

\* lines 146-152: one iteration of the loop over the vertices
SmoothVertex ==
    /\ stage = "smooth_mesh"
    /\ opc = "vertex"
    /\ vi < Len(new_vertices)
    /\ LET m == meshes[mesh_copy]
           i == vi + 1
           nbrs == vertex_neighbors(m, i)
       IN  new_vertices' =
              IF Cardinality(nbrs) > 0
              THEN [new_vertices EXCEPT ![i] =
                      Smoothed(ReadPositions(m.vertices, new_vertices), nbrs, i,
                               args.lambda_factor)]
              ELSE new_vertices
    /\ vi' = vi + 1
    /\ UNCHANGED <<callVars, it, pre, meshes, mesh_in, mesh_copy, opc, out, filled, mesh_in0,
                   ran, reports, touched, otherVars>>

\* line 154: mesh_copy.vertices = new_vertices
SmoothAssign ==
    /\ stage = "smooth_mesh"
    /\ opc = "vertex"
    /\ vi = Len(new_vertices)
    /\ meshes' = [meshes EXCEPT ![mesh_copy].vertices = new_vertices]
    /\ it' = it + 1
    /\ opc' = "pass"
    /\ ran' = Append(ran, "pass")
    /\ UNCHANGED <<callVars, new_vertices, vi, pre, mesh_in, mesh_copy, out, filled, mesh_in0,
                   reports, touched, otherVars>>

\* largest number of smoothing passes
MaxIterations == 2

InitSmooth ==
    /\ stage = "smooth_mesh"
    /\ \E k \in -1..MaxIterations, lam \in {<<0, 1>>, <<1, 2>>, <<1, 1>>} :
          args = [iterations |-> k, lambda_factor |-> lam]
    /\ \E m \in StageMeshes : CallOf(Exact(m))
    /\ fault = "none"
    /\ fill_drops_flat = FALSE

\* the undirected edges of the faces, and the place of edge e among them
UniqueEdges(m) == {SortedEdge(Edges(m)[i]) : i \in 1..(3 * Len(m.faces))}
EdgePlace(S, e) ==
    Cardinality({x \in S : x[1] < e[1] \/ (x[1] = e[1] /\ x[2] <= e[2])})

\* mesh.subdivide(): a new vertex at the middle of every edge, and every
\* face replaced by the four faces that cuts it into; a mesh without faces
\* comes back without faces
subdivide(m) ==
    LET S == UniqueEdges(m)
        mid(a, b) == Len(m.vertices) + EdgePlace(S, SortedEdge(<<a, b>>))
        half == <<1, 2>>
    IN  [vertices |->
            m.vertices \o
            [k \in 1..Cardinality(S) |->
               CHOOSE p \in {VScale(half, VAdd(m.vertices[e[1]], m.vertices[e[2]])) :
                                e \in {x \in S : EdgePlace(S, x) = k}} : TRUE],
         faces |->
            [k \in 1..(4 * Len(m.faces)) |->
               LET fc == m.faces[(k - 1) \div 4 + 1]
                   part == (k - 1) % 4
               IN  CASE part = 0 -> <<fc[1], mid(fc[1], fc[2]), mid(fc[3], fc[1])>>
                     [] part = 1 -> <<mid(fc[1], fc[2]), fc[2], mid(fc[2], fc[3])>>
                     [] part = 2 -> <<mid(fc[3], fc[1]), mid(fc[2], fc[3]), fc[3]>>
                     [] OTHER -> <<mid(fc[1], fc[2]), mid(fc[2], fc[3]), mid(fc[3], fc[1])>>]]

\* if target_faces: of an Optional[int], <<>> for None
Truthy(opt) == opt # <<>> /\ opt[1] # 0

\* lines 450-456: mesh_copy = mesh.copy(), and the branch taken
RemeshCopy ==
    /\ stage = "remesh_uniform"
    /\ opc = "call"
    /\ LET cp == MeshCopy(meshes, mesh_in)
       IN  /\ meshes' = cp.heap
           /\ mesh_copy' = cp.ref
           /\ opc' = IF ~Truthy(args.target_faces) THEN "return"
                     ELSE IF Len(meshes[mesh_in].faces) > args.target_faces[1]
                     THEN "simplify" ELSE "while"
    /\ ran' = Append(ran, "copy")
    /\ UNCHANGED <<callVars, smoothVars, mesh_in, out, filled, mesh_in0, reports, touched,
                   otherVars>>

\* lines 458 and 465: mesh_copy = mesh_copy.simplify_quadric_decimation(
\* target_faces).  The Trimesh mesh_copy held is no longer referred to: the
\* new one takes its place in meshes.
RemeshSimplify ==
    /\ stage = "remesh_uniform"
    /\ opc = "simplify"
    /\ IF fault = "simplify_quadric_decimation"
       THEN /\ out' = Raised("Exception")
            /\ opc' = "done"
            /\ UNCHANGED meshes
       ELSE /\ \E k \in {args.target_faces[1] - 1, args.target_faces[1]} :
                  /\ k >= 0
                  /\ meshes' = [meshes EXCEPT ![mesh_copy].faces = SubSeq(@, 1, k)]
            /\ opc' = "return"
            /\ UNCHANGED out
    /\ ran' = Append(ran, "simplify_quadric_decimation")
    /\ UNCHANGED <<callVars, smoothVars, mesh_in, mesh_copy, filled, mesh_in0, reports,
                   touched, otherVars>>

\* line 461: while len(mesh_copy.faces) < target_faces
RemeshWhile ==
    /\ stage = "remesh_uniform"
    /\ opc = "while"
    /\ opc' = IF Len(meshes[mesh_copy].faces) < args.target_faces[1]
              THEN "subdivide" ELSE "return"
    /\ UNCHANGED <<callVars, smoothVars, meshes, mesh_in, mesh_copy, out, filled, mesh_in0,
                   ran, reports, touched, otherVars>>

\* lines 462-466: mesh_copy = mesh_copy.subdivide(), and the overshoot test
RemeshSubdivide ==
    /\ stage = "remesh_uniform"
    /\ opc = "subdivide"
    /\ IF fault = "subdivide"
       THEN /\ out' = Raised("Exception")
            /\ opc' = "done"
            /\ UNCHANGED meshes
       ELSE /\ LET subdivided == subdivide(meshes[mesh_copy])
               IN  /\ meshes' = [meshes EXCEPT ![mesh_copy] = subdivided]
                   /\ opc' = IF 2 * Len(subdivided.faces) > 3 * args.target_faces[1]
                             THEN "simplify" ELSE "while"
            /\ UNCHANGED out
    /\ ran' = Append(SubSeq(ran, 1, 1), "subdivide")
    /\ UNCHANGED <<callVars, smoothVars, mesh_in, mesh_copy, filled, mesh_in0, reports,
                   touched, otherVars>>

\* line 468: return mesh_copy
RemeshReturn ==
    /\ stage = "remesh_uniform"
    /\ opc = "return"
    /\ out' = Returned(mesh_copy)
    /\ opc' = "done"
    /\ UNCHANGED <<callVars, smoothVars, meshes, mesh_in, mesh_copy, filled, mesh_in0, ran,
                   reports, touched, otherVars>>

InitRemesh ==
    /\ stage = "remesh_uniform"
    /\ \E t \in {<<>>, <<0>>, <<1>>, <<3>>, <<5>>} :
          args = [target_edge_length |-> <<>>, target_faces |-> t]
    /\ \E m \in StageMeshes : CallOf(Exact(m))
    /\ fault \in {"none", "subdivide", "simplify_quadric_decimation"}
    /\ fill_drops_flat = FALSE

MeshIdle ==
    /\ mesh = [vertices |-> <<>>, faces |-> <<>>]
    /\ report = PyNone

StagesIdle == MaskIdle /\ IsoIdle /\ MeshIdle /\ OpsIdle

\* a caller builds a vase mask
CallVase ==
    /\ mk_vase = PyNone
    /\ mk_vase' = make_vase_mask(mk_n, mk_radius_frac, mk_taper)
    /\ UNCHANGED <<mk_n, mk_radius_frac, mk_taper, mk_cyl, carveVars, pairVars, isoVars,
                   meshVars, opVars>>

\* a caller builds a cylinder mask
CallCylinder ==
    /\ mk_cyl = PyNone
    /\ mk_cyl' = make_cylinder_mask(mk_n, mk_radius_frac)
    /\ UNCHANGED <<mk_n, mk_radius_frac, mk_taper, mk_vase, carveVars, pairVars, isoVars,
                   meshVars, opVars>>

----------------------------------------------------------------------------
(* carve_tunnels_random_walk *)

\* field.copy(): a new array with the same contents
ArrayCopyAliased(h, a) == [heap |-> h, ref |-> a]
ArrayCopy(h, a) == [heap |-> Append(h, h[a]), ref |-> Len(h) + 1]

\* slice(max(0, int(x - radius)), min(n, int(x + radius + 1))) holds index i
InSlice(i, x, r2, m) ==
    /\ Max2(0, IntHalf(2 * x - r2)) <= i
    /\ i < Min2(m, IntHalf(2 * x + r2 + 2))

\* cell c lies in f[xs, ys, zs]
InBox(c, p, r2, m) ==
    InSlice(c[1], p[1], r2, m) /\ InSlice(c[2], p[2], r2, m) /\ InSlice(c[3], p[3], r2, m)

\* R <= radius, R = sqrt((X - x)^2 + (Y - y)^2 + (Z - z)^2), radius >= 0
WithinRadius(c, p, r2) ==
    4 * ((c[1] - p[1]) * (c[1] - p[1]) + (c[2] - p[2]) * (c[2] - p[2])
         + (c[3] - p[3]) * (c[3] - p[3])) <= r2 * r2

\* f[xs, ys, zs][carve_mask] *= reduction_factor
CarveAdd(arr, p, r2, rf, m) ==
    [c \in DOMAIN arr |->
        IF InBox(c, p, r2, m) /\ WithinRadius(c, p, r2)
        THEN <<arr[c][1] * rf[2] + rf[1] * arr[c][2], arr[c][2] * rf[2]>> ELSE arr[c]]
CarveWholeBox(arr, p, r2, rf, m) ==
    [c \in DOMAIN arr |-> IF InBox(c, p, r2, m) THEN RMul(arr[c], rf) ELSE arr[c]]
Carve(arr, p, r2, rf, m) ==
    [c \in DOMAIN arr |->
        IF InBox(c, p, r2, m) /\ WithinRadius(c, p, r2) THEN RMul(arr[c], rf) ELSE arr[c]]

\* np.clip(v, 0, n - 1)
Clip(v, lo, hi) == IF v < lo THEN lo ELSE IF v > hi THEN hi ELSE v

\* x, y, z after the random walk step (dx, dy, dz), clipped to the grid
Moved(p, d, m) ==
    <<Clip(p[1] + d[1], 0, m - 1), Clip(p[2] + d[2], 0, m - 1), Clip(p[3] + d[3], 0, m - 1)>>

StepDraws == {-1, 0, 1} \X {-1, 0, 1} \X {-1, 0, 1}

\* rng = np.random.default_rng(random_seed): a seed fixes the stream of draws
SeededNever == FALSE
Seeded == random_seed # <<>>

\* The generator's next value e = <<low, high, value>> after the draws hist.
\* A seeded generator repeats, in a repeated call, the stream of the first call:
\* after the same draws, a request over the same range yields the same value.
StreamAllows(hist, e) ==
    (/\ Seeded
     /\ callNo = 2
     /\ Len(hist) < Len(prevDrawn)
     /\ hist = SubSeq(prevDrawn, 1, Len(hist))
     /\ prevDrawn[Len(hist) + 1][1] = e[1]
     /\ prevDrawn[Len(hist) + 1][2] = e[2])
    => e = prevDrawn[Len(hist) + 1]

\* lines 46-56: the degenerate returns, the generator, coords and the working copy
Call ==
    /\ pc = "call"
    /\ LET cp == ArrayCopy(heap, field)
           cs == Where(mask, n)
       IN  IF n_agents <= 0 \/ agent_steps <= 0
           THEN /\ heap' = cp.heap
                /\ ret' = cp.ref
                /\ pc' = "done"
                /\ UNCHANGED <<coords, f>>
           ELSE IF Len(cs) = 0
           THEN /\ heap' = cp.heap
                /\ ret' = cp.ref
                /\ coords' = cs
                /\ pc' = "done"
                /\ UNCHANGED f
           ELSE /\ heap' = cp.heap
                /\ f' = cp.ref
                /\ coords' = cs
                /\ pc' = "agent"
                /\ UNCHANGED ret
    /\ UNCHANGED <<field, mask, n_agents, agent_steps, radius2, reduction_factor,
                   random_seed, n, pos, agent, step, field0, carved, agentOps, restarts>>
    /\ UNCHANGED <<pairVars, stageVars>>

\* lines 58-60: the next agent starts at coords[rng.integers(0, len(coords))];
\* keep tells whether the history of draws is kept (the repeated-call runs)
StartAgent(keep) ==
    /\ pc = "agent"
    /\ agent < n_agents
    /\ step' = 0
    /\ agentOps' = Append(agentOps, 0)
    /\ pc' = "steps"
    /\ \E j \in 0..(Len(coords) - 1) :
          /\ pos' = coords[j + 1]
          /\ IF keep
             THEN /\ StreamAllows(drawn, <<0, Len(coords), j>>)
                  /\ drawn' = Append(drawn, <<0, Len(coords), j>>)
             ELSE UNCHANGED drawn
    /\ UNCHANGED <<heap, field, mask, n_agents, agent_steps, radius2, reduction_factor,
                   random_seed, n, coords, f, agent, ret, field0, carved, restarts>>
    /\ UNCHANGED <<callNo, prevOut, prevDrawn, stageVars>>

\* mask[int(x), int(y), int(z)] is False after the step
LeftMaskNever(p) == FALSE
LeftMask(p) == ~mask[p]

\* for _ in range(agent_steps): the step count after an iteration, whether or
\* not the agent left the mask in it
StepAfterEndsOnRestart(s, left) == IF left THEN agent_steps ELSE s + 1
StepAfter(s, left) == s + 1

\* lines 62-89: one iteration of the inner loop: carve, step, restart
Iterate(keep) ==
    /\ pc = "steps"
    /\ step < agent_steps
    /\ heap' = [heap EXCEPT ![f] = Carve(@, pos, radius2, reduction_factor, n)]
    /\ carved' = [c \in DOMAIN carved |->
                    IF WithinRadius(c, pos, radius2) THEN carved[c] + 1 ELSE carved[c]]
    /\ agentOps' = [agentOps EXCEPT ![Len(agentOps)] = @ + 1]
    /\ \E d \in StepDraws :
          LET q == Moved(pos, d, n)
              h == Append(drawn, <<-1, 2, d>>)
              s == StepAfter(step, LeftMask(q))
          IN  /\ keep => StreamAllows(drawn, <<-1, 2, d>>)
              /\ step' = s
              /\ IF s >= agent_steps
                 THEN agent' = agent + 1 /\ pc' = "agent"
                 ELSE UNCHANGED <<agent, pc>>
              /\ restarts' = IF LeftMask(q) THEN restarts + 1 ELSE restarts
              /\ IF LeftMask(q)
                 THEN \E j \in 0..(Len(coords) - 1) :
                         /\ pos' = coords[j + 1]
                         /\ IF keep
                            THEN /\ StreamAllows(h, <<0, Len(coords), j>>)
                                 /\ drawn' = Append(h, <<0, Len(coords), j>>)
                            ELSE UNCHANGED drawn
                 ELSE /\ pos' = q
                      /\ IF keep THEN drawn' = h ELSE UNCHANGED drawn
    /\ UNCHANGED <<field, mask, n_agents, agent_steps, radius2, reduction_factor,
                   random_seed, n, coords, f, ret, field0>>
    /\ UNCHANGED <<callNo, prevOut, prevDrawn, stageVars>>

\* line 91: return f
Return ==
    /\ pc = "agent"
    /\ agent >= n_agents
    /\ ret' = f
    /\ pc' = "done"
    /\ UNCHANGED <<heap, field, mask, n_agents, agent_steps, radius2, reduction_factor,
                   random_seed, n, coords, f, pos, agent, step, field0, carved, agentOps, restarts>>
    /\ UNCHANGED <<pairVars, stageVars>>

\* the parameters a caller may pass
CallInit ==
    /\ n \in GridSizes
    /\ \E b \in {-1, 1} : heap = <<InputField(n, b)>>
    /\ field = 1
    /\ field0 = heap[1]
    /\ \E k \in 0..3 : (k = 3 => n <= 2) /\ mask = InputMask(n, k)
    /\ n_agents \in CountRange
    /\ agent_steps \in CountRange
    /\ (n_agents > 0 /\ agent_steps > 0) => n_agents * agent_steps <= MaxOps
    /\ radius2 \in Radii2
    /\ reduction_factor \in Factors
    /\ coords = <<>>
    /\ f = 0
    /\ pos = <<0, 0, 0>>
    /\ agent = 0
    /\ step = 0
    /\ pc = "call"
    /\ ret = 0
    /\ carved = [c \in Cells(n) |-> 0]
    /\ agentOps = <<>>
    /\ restarts = 0

PairIdle ==
    /\ drawn = <<>>
    /\ callNo = 1
    /\ prevOut = <<>>
    /\ prevDrawn = <<>>

Init ==
    /\ CallInit
    /\ random_seed = <<>>
    /\ PairIdle
    /\ StagesIdle

Next ==
    \/ Call
    \/ StartAgent(FALSE)
    \/ Iterate(FALSE)
    \/ Return

Spec == Init /\ [][Next]_vars

----------------------------------------------------------------------------
(* Two repeated calls with the same arguments *)

\* the caller calls carve_tunnels_random_walk again with the same arguments
Repeat ==
    /\ pc = "done"
    /\ callNo = 1
    /\ callNo' = 2
    /\ prevOut' = heap[ret]
    /\ prevDrawn' = drawn
    /\ drawn' = <<>>
    /\ field0' = heap[field]
    /\ coords' = <<>>
    /\ f' = 0
    /\ pos' = <<0, 0, 0>>
    /\ agent' = 0
    /\ step' = 0
    /\ pc' = "call"
    /\ ret' = 0
    /\ carved' = [c \in Cells(n) |-> 0]
    /\ agentOps' = <<>>
    /\ restarts' = 0
    /\ UNCHANGED <<heap, field, mask, n_agents, agent_steps, radius2, reduction_factor,
                   random_seed, n, stageVars>>

\* Pairs of calls on the 2 x 2 x 2 grid, with at most two agents and two steps
\* (every draw of both calls is part of the state); an unseeded pair is kept
\* to one carving operation per call.
InitPair ==
    /\ n = 2
    /\ heap = <<InputField(n, 1)>>
    /\ field = 1
    /\ field0 = heap[1]
    /\ \E k \in 0..2 : mask = InputMask(n, k)
    /\ n_agents \in 0..2
    /\ agent_steps \in 0..2
    /\ n_agents * agent_steps <= MaxOps
    /\ radius2 \in {0, 2}
    /\ reduction_factor = <<1, 2>>
    /\ random_seed \in Seeds
    /\ random_seed = <<>> => n_agents * agent_steps <= 1
    /\ coords = <<>>
    /\ f = 0
    /\ pos = <<0, 0, 0>>
    /\ agent = 0
    /\ step = 0
    /\ pc = "call"
    /\ ret = 0
    /\ carved = [c \in Cells(n) |-> 0]
    /\ agentOps = <<>>
    /\ restarts = 0
    /\ PairIdle
    /\ StagesIdle

NextPair ==
    \/ Call
    \/ StartAgent(TRUE)
    \/ Iterate(TRUE)
    \/ Return
    \/ Repeat

SpecPair == InitPair /\ [][NextPair]_vars

----------------------------------------------------------------------------
(* The boundary mask builders on their own *)

CarveIdle ==
    /\ n = 1
    /\ heap = <<InputField(1, 1)>>
    /\ field = 1
    /\ field0 = heap[1]
    /\ mask = InputMask(1, 0)
    /\ n_agents = 0
    /\ agent_steps = 0
    /\ radius2 = 0
    /\ reduction_factor = <<1, 2>>
    /\ random_seed = <<>>
    /\ coords = <<>>
    /\ f = 0
    /\ pos = <<0, 0, 0>>
    /\ agent = 0
    /\ step = 0
    /\ pc = "idle"
    /\ ret = 0
    /\ carved = [c \in Cells(1) |-> 0]
    /\ agentOps = <<>>
    /\ restarts = 0
    /\ PairIdle

InitMask ==
    /\ mk_n \in 1..MaxMaskN
    /\ mk_radius_frac \in RadiusFracs
    /\ mk_taper \in Tapers
    /\ mk_vase = PyNone
    /\ mk_cyl = PyNone
    /\ CarveIdle
    /\ IsoIdle
    /\ MeshIdle
    /\ OpsIdle

NextMask ==
    \/ CallVase
    \/ CallCylinder

SpecMask == InitMask /\ [][NextMask]_vars

----------------------------------------------------------------------------
(* extract_isosurface on its own *)

InitIso ==
    /\ \E m \in 2..MaxIsoN, k \in 0..3, dims \in {2, 3} : iso_field = IsoField(m, k, dims)
    /\ isovalue2 \in -1..3
    /\ smooth \in BOOLEAN
    /\ iso_out = PyNone
    /\ CarveIdle
    /\ MaskIdle
    /\ MeshIdle
    /\ OpsIdle

NextIso == CallExtract

SpecIso == InitIso /\ [][NextIso]_vars

----------------------------------------------------------------------------
(* validate_mesh on its own *)

InitMesh ==
    /\ mesh \in InputMeshes
    /\ mesh.faces # <<>>
    /\ report = PyNone
    /\ CarveIdle
    /\ MaskIdle
    /\ IsoIdle
    /\ OpsIdle

NextMesh == CallValidate

SpecMesh == InitMesh /\ [][NextMesh]_vars

----------------------------------------------------------------------------
(* The mesh stages on their own *)

InitStages ==
    /\ InitRepair \/ InitDecimate \/ InitDisplace \/ InitSmooth \/ InitRemesh
    /\ CarveIdle
    /\ MaskIdle
    /\ IsoIdle
    /\ MeshIdle

NextStages ==
    \/ RepairCopy
    \/ RepairMerge
    \/ RepairDegenerate
    \/ RepairDuplicate
    \/ RepairFill
    \/ RepairNormals
    \/ RepairReturn
    \/ Revalidate
    \/ Again
    \/ Decimate
    \/ Displace
    \/ SmoothCopy
    \/ SmoothPass
    \/ SmoothVertex
    \/ SmoothAssign
    \/ RemeshCopy
    \/ RemeshSimplify
    \/ RemeshWhile
    \/ RemeshSubdivide
    \/ RemeshReturn
    \/ Touch

SpecStages == InitStages /\ [][NextStages]_vars

----------------------------------------------------------------------------
(* remesh_uniform on its own.  The interpreter runs a call that has begun   *)
(* until it returns or raises: every step of it that can be taken is taken. *)

InitRemeshOnly ==
    /\ InitRemesh
    /\ CarveIdle
    /\ MaskIdle
    /\ IsoIdle
    /\ MeshIdle

NextRemesh ==
    \/ RemeshCopy
    \/ RemeshSimplify
    \/ RemeshWhile
    \/ RemeshSubdivide
    \/ RemeshReturn

SpecRemesh == InitRemeshOnly /\ [][NextRemesh]_vars /\ WF_vars(NextRemesh)

----------------------------------------------------------------------------
(* Properties of carve_tunnels_random_walk *)

RECURSIVE SumSeq(_)
SumSeq(q) == IF q = <<>> THEN 0 ELSE Head(q) + SumSeq(Tail(q))

MaskEmpty == \A c \in DOMAIN mask : ~mask[c]
Degenerate == n_agents <= 0 \/ agent_steps <= 0 \/ MaskEmpty
NonNegative(arr) == \A c \in DOMAIN arr : arr[c][1] >= 0
FactorInRange == RLeq(<<0, 1>>, reduction_factor) /\ RLeq(reduction_factor, <<1, 1>>)

\* C1: in the three degenerate cases (n_agents <= 0, agent_steps <= 0, a mask
\* with no True cell) the call returns a field equal to its input, cell by
\* cell, and applies no carving operation.
C1_DegenerateReturnsInput ==
    (pc = "done" /\ Degenerate) =>
        /\ ret # 0
        /\ heap[ret] = field0
        /\ agentOps = <<>>
        /\ \A c \in DOMAIN carved : carved[c] = 0

C1_Witness ==
    /\ pc = "done"
    /\ MaskEmpty
    /\ n_agents > 0
    /\ agent_steps > 0
    /\ heap[ret] = field0

\* C2: for a non-negative input field and 0 <= reduction_factor <= 1, every cell
\* of the working copy, hence of the returned field, is <= the same cell of the
\* input, after any sequence of starts, steps and restarts.
C2_NeverIncreases ==
    (NonNegative(field0) /\ FactorInRange) =>
        /\ f # 0 => \A c \in DOMAIN field0 : RLeq(heap[f][c], field0[c])
        /\ ret # 0 => \A c \in DOMAIN field0 : RLeq(heap[ret][c], field0[c])

C2_Witness ==
    /\ pc = "done"
    /\ NonNegative(field0)
    /\ FactorInRange
    /\ restarts > 0
    /\ \E c \in DOMAIN field0 : ~RLeq(field0[c], heap[ret][c])

\* C3: each cell of the returned field is its input value times
\* reduction_factor^k, k the number of carving operations at which the cell lay
\* within Euclidean distance radius of the agent; k = 0 keeps the input value.
C3_ScaledByVisits ==
    (pc = "done" /\ ~Degenerate) =>
        \A c \in DOMAIN field0 :
            /\ REq(heap[ret][c], RMul(field0[c], RPow(reduction_factor, carved[c])))
            /\ carved[c] = 0 => heap[ret][c] = field0[c]

C3_Witness ==
    /\ pc = "done"
    /\ reduction_factor = <<1, 2>>
    /\ \E c \in DOMAIN field0 : carved[c] = 2 /\ field0[c][1] # 0
    /\ \E c \in DOMAIN field0 : carved[c] = 0 /\ field0[c][1] # 0
    /\ \E c \in DOMAIN field0 : carved[c] = 1 /\ field0[c][1] # 0

\* C4: a non-degenerate call runs n_agents agents, each performing exactly
\* agent_steps carving operations, n_agents * agent_steps in total; a restart
\* neither ends an agent early nor resets or extends its step count.
C4_ExactStepBudget ==
    /\ (pc = "done" /\ ~Degenerate) =>
          /\ Len(agentOps) = n_agents
          /\ \A i \in 1..Len(agentOps) : agentOps[i] = agent_steps
          /\ SumSeq(agentOps) = n_agents * agent_steps
    /\ \A i \in 1..Len(agentOps) : agentOps[i] <= agent_steps

C4_Witness ==
    /\ pc = "done"
    /\ n_agents = 1
    /\ agent_steps = 2
    /\ restarts = 2
    /\ agentOps = <<2>>

\* C5: the call never modifies the caller's field: at every point the input
\* array holds the values it had at the call, and the returned array is another
\* array than the input, in the degenerate cases too.
C5_InputUntouched ==
    /\ heap[field] = field0
    /\ f # field
    /\ ret # field

C5_Witness ==
    /\ pc = "done"
    /\ ~Degenerate
    /\ ret # field
    /\ \E c \in DOMAIN field0 : heap[ret][c] # field0[c]
    /\ heap[field] = field0

\* C6: two calls with the same arguments and the same non-None seed return
\* identical fields; whatever the seed, two calls that drew the same values
\* return identical fields.
C6_SameSeedSameField ==
    (pc = "done" /\ callNo = 2) =>
        /\ random_seed # <<>> => heap[ret] = prevOut
        /\ drawn = prevDrawn => heap[ret] = prevOut

C6_Witness ==
    /\ pc = "done"
    /\ callNo = 2
    /\ random_seed # <<>>
    /\ restarts > 0
    /\ Len(drawn) >= 3
    /\ heap[ret] = prevOut
    /\ heap[ret] # field0

----------------------------------------------------------------------------
(* Properties of the boundary masks *)

\* C7 as stated: the value make_cylinder_mask(n, r) returns equals the mask
\* component of make_vase_mask(n, r, taper=0).
C7_CylinderIsVaseMask ==
    (mk_taper = <<0, 1>> /\ mk_vase # PyNone /\ mk_cyl # PyNone) =>
        mk_cyl = Index0(mk_vase)

\* C7 amended: make_cylinder_mask(n, r) returns the tuple (mask, Z_norm), and
\* its mask component equals the mask component of make_vase_mask(n, r, taper=0).
C7_CylinderMaskComponent ==
    (mk_taper = <<0, 1>> /\ mk_vase # PyNone /\ mk_cyl # PyNone) =>
        /\ mk_cyl.type = "tuple"
        /\ Len(mk_cyl.items) = 2
        /\ Index0(mk_cyl).type = "ndarray"
        /\ Index0(mk_cyl) = Index0(mk_vase)

C7_Witness ==
    /\ mk_taper = <<0, 1>>
    /\ mk_vase # PyNone
    /\ mk_cyl # PyNone
    /\ mk_n = 3
    /\ Index0(mk_cyl) = Index0(mk_vase)
    /\ \E c \in Cells(mk_n) : Index0(mk_cyl).data[c]
    /\ \E c \in Cells(mk_n) : ~Index0(mk_cyl).data[c]

----------------------------------------------------------------------------
(* Properties of extract_isosurface *)

AllBelow == \A c \in DOMAIN iso_field.data : 2 * iso_field.data[c] < isovalue2
AllAbove == \A c \in DOMAIN iso_field.data : 2 * iso_field.data[c] > isovalue2

\* C8: on a 3D field whose values are all below isovalue, or all above it,
\* extract_isosurface returns a mesh with zero vertices and zero faces and
\* signals no error.
C8_EmptyMeshNoError ==
    (iso_out # PyNone /\ iso_field.ndim = 3 /\ (AllBelow \/ AllAbove)) =>
        /\ iso_out.kind = "mesh"
        /\ iso_out.num_vertices = 0
        /\ iso_out.cubes = 0

----------------------------------------------------------------------------
(* Properties of validate_mesh *)

ErrorKinds == {"Mesh is not watertight (has holes)", "Found degenerate faces (zero area)"}
Mentions(list, text) == \E i \in 1..Len(list) : list[i][1] = text

\* faces whose area is exactly zero
ZeroAreaFaces == {i \in 1..Len(mesh.faces) : Cross2(mesh, mesh.faces[i]) = 0}
\* faces whose area np.isclose takes for zero
NearZeroFaces == {i \in 1..Len(mesh.faces) : Cross2(mesh, mesh.faces[i]) <= AreaTolCross2}

\* C9: in every report, is_valid is True exactly when the mesh is watertight
\* and has no degenerate face; winding inconsistency, duplicate vertices and
\* the not-a-volume finding add warnings only and never an error.
C9_ValidIffWatertightNoDegenerate ==
    report # PyNone =>
        /\ report.is_valid = (is_watertight(mesh) /\ NearZeroFaces = {})
        /\ \A i \in 1..Len(report.errors) : report.errors[i][1] \in ErrorKinds
        /\ Mentions(report.errors, "Mesh is not watertight (has holes)") = ~is_watertight(mesh)
        /\ Mentions(report.errors, "Found degenerate faces (zero area)") = (NearZeroFaces # {})
        /\ Mentions(report.warnings, "Face winding is inconsistent") = ~is_winding_consistent(mesh)
        /\ Mentions(report.warnings, "Found duplicate vertices") = (CountDuplicates(mesh) > 0)
        /\ Mentions(report.warnings, "Mesh may have self-intersections or is not a volume")
              = ~is_volume(mesh)

C9_Witness ==
    /\ report # PyNone
    /\ report.is_valid
    /\ Len(report.warnings) = 3
    /\ ~is_winding_consistent(mesh)
    /\ CountDuplicates(mesh) > 0
    /\ ~is_volume(mesh)

\* C10 as stated: for every mesh with one or more zero-area faces the report
\* has is_valid = False, an error entry, and degenerate_faces equal to the
\* exact number of zero-area faces.
C10_ExactZeroAreaCount ==
    (report # PyNone /\ ZeroAreaFaces # {}) =>
        /\ ~report.is_valid
        /\ Mentions(report.errors, "Found degenerate faces (zero area)")
        /\ "degenerate_faces" \in DOMAIN report
        /\ report.degenerate_faces = Cardinality(ZeroAreaFaces)

\* C10 amended: for every mesh with one or more faces whose area np.isclose
\* takes for zero (every zero-area face is one), the report has
\* is_valid = False, an error entry, and degenerate_faces equal to the number of
\* those faces, whatever the watertightness, winding or duplicate findings.
C10_NearZeroAreaCount ==
    (report # PyNone /\ NearZeroFaces # {}) =>
        /\ ~report.is_valid
        /\ Mentions(report.errors, "Found degenerate faces (zero area)")
        /\ "degenerate_faces" \in DOMAIN report
        /\ report.degenerate_faces = Cardinality(NearZeroFaces)
        /\ report.errors[Len(report.errors)][2] = Cardinality(NearZeroFaces)

C10_Witness ==
    /\ report # PyNone
    /\ is_watertight(mesh)
    /\ is_winding_consistent(mesh)
    /\ CountDuplicates(mesh) = 0
    /\ Cardinality(ZeroAreaFaces) = 2
    /\ ~report.is_valid
    /\ report.degenerate_faces = 2

----------------------------------------------------------------------------
(* Properties of the mesh stages *)

\* C11 as stated: repair_mesh never raises: whichever of its steps fails, the
\* call ends by returning a mesh, and after a failure of the hole filling
\* the remaining steps still run.
C11_RepairNeverRaises ==
    (stage = "repair_mesh" /\ opc = "done") =>
        /\ out.kind = "mesh"
        /\ ran[Len(ran) - 1] = "fill_holes raised" => ran[Len(ran)] = "fix_normals"

IsReport(r) == "is_valid" \in DOMAIN r
DegenerateFound(r) == IF "degenerate_faces" \in DOMAIN r THEN r.degenerate_faces ELSE 0

\* C12 as stated: every mesh stage leaves its input mesh unchanged and
\* returns a mesh that is not the input mesh, decimate_mesh on a mesh of at
\* most target_faces faces included: whatever the caller does to the returned
\* mesh afterwards, the input mesh keeps the contents it had at the call.
C12_StagesLeaveInputAlone ==
    opc # "idle" =>
        /\ meshes[mesh_in] = mesh_in0
        /\ (out # PyNone /\ out.kind = "mesh") => out.ref # mesh_in

Laplacian(v, fcs, i, lam) ==
    LET nbrs == {j \in 1..Len(v) : \E k \in 1..Len(fcs) :
                    {i, j} \subseteq {fcs[k][1], fcs[k][2], fcs[k][3]} /\ i # j}
        one_minus == RAdd(<<1, 1>>, <<-lam[1], lam[2]>>)
    IN  IF nbrs = {} THEN v[i]
        ELSE [c \in 1..3 |->
                RAdd(RScale(one_minus, v[i][c]),
                     RScale(<<lam[1], lam[2] * Cardinality(nbrs)>>,
                            VSum(v, nbrs)[c]))]

\* C14: in every pass of smooth_mesh the positions read are those the
\* vertices had when the pass began: every vertex the pass has processed
\* holds (1 - lambda) * v + lambda * mean(neighbours of v) over those
\* positions, or its own position when it has no neighbour, and every other
\* vertex still holds its position; with iterations = 0 (or less) the
\* returned positions are the input's.
C14_SmoothFromPrePass ==
    stage = "smooth_mesh" =>
        /\ opc = "vertex" =>
              /\ meshes[mesh_copy].vertices = pre
              /\ \A i \in 1..Len(pre) :
                    new_vertices[i] =
                        IF i <= vi
                        THEN Laplacian(pre, meshes[mesh_copy].faces, i, args.lambda_factor)
                        ELSE pre[i]
        /\ (opc = "pass" /\ it > 0) =>
              \A i \in 1..Len(pre) :
                  meshes[mesh_copy].vertices[i] =
                      Laplacian(pre, meshes[mesh_copy].faces, i, args.lambda_factor)
        /\ (opc = "done" /\ ~touched /\ args.iterations <= 0) =>
              meshes[out.ref].vertices = mesh_in0.vertices

\* a second pass has moved a vertex with neighbours again and left the
\* vertex without neighbours where it was
C14_Witness ==
    /\ stage = "smooth_mesh"
    /\ opc = "done"
    /\ ~touched
    /\ it = 2
    /\ args.lambda_factor = <<1, 2>>
    /\ meshes[out.ref].vertices[1] # pre[1]
    /\ pre[1] # mesh_in0.vertices[1]
    /\ meshes[out.ref].vertices[5] = mesh_in0.vertices[5]

\* C15 as stated: remesh_uniform terminates for every mesh and every
\* target_faces, a mesh with zero faces included: every call returns (or
\* raises), the subdivide loop having been left.
C15_RemeshTerminates == <>(opc = "done")

\* C16: with a field and a mask of the same shape n x n x n and a mask that
\* is not empty, whenever a carving operation is about to run (at the agent's
\* start and after every random step) the agent's position is a lattice cell
\* with every coordinate in 0..n-1 at which the mask is True.
C16_PositionInMask ==
    (pc = "steps" /\ step < agent_steps) => (pos \in Cells(n) /\ mask[pos])

\* an agent has left the mask, was restarted, and is about to carve again
C16_Witness ==
    /\ pc = "steps"
    /\ step = 1
    /\ agent_steps = 2
    /\ restarts = 1
    /\ pos \in Cells(n)
    /\ mask[pos]
    /\ \E c \in Cells(n) : ~mask[c]

====
